---- MODULE Spec2Model ----
(***************************************************************************)
(* Model of the persona feedback pipeline (src/test_merchant_feedback.py)  *)
(* and of the collaborators it calls (model clients, vector store).        *)
(*                                                                         *)
(* Text.  A Python str is modelled as a sequence of tokens <<kind, text>>; *)
(* the str is the concatenation of the token texts.  Kinds:                *)
(*   "ws"   one whitespace character (" ", "\n", "\r", "\t")                *)
(*   "d"    one decimal digit                                              *)
(*   "c"    one other character that the parsers look at                   *)
(*          ("+", "-", ".", "{", "}", "[", "]", ",", ":")                  *)
(*   "lit"  one JSON string literal, quotes included; text is its content  *)
(*   "litnl" a quoted string with a raw line feed in it (not valid JSON)   *)
(*   "w"    a run of other characters (a word, a fence marker, an error    *)
(*          tag), none of them one of the characters above                 *)
(* Floats are exact decimals in hundredths: 4.5 is 450.                    *)
(***************************************************************************)
EXTENDS Integers, Sequences, FiniteSets, TLC

None == "None"

T(kind, text) == <<kind, text>>
Ws(c) == T("ws", c)
Dg(c) == T("d", c)
Ch(c) == T("c", c)
Lit(s) == T("lit", s)
LitNl(s) == T("litnl", s)
Wd(s) == T("w", s)

IsWs(tok) == tok[1] = "ws"

\* ---------------------------------------------------------------- str
\* str.lstrip / str.rstrip / str.strip with no argument: whitespace goes.
RECURSIVE lstrip(_)
lstrip(s) == IF s # <<>> /\ IsWs(Head(s)) THEN lstrip(Tail(s)) ELSE s

RECURSIVE rstrip(_)
rstrip(s) ==
    IF s # <<>> /\ IsWs(s[Len(s)]) THEN rstrip(SubSeq(s, 1, Len(s) - 1)) ELSE s

strip(s) == rstrip(lstrip(s))

\* s.find(c) for a one-character c: the first index (from 1), 0 when absent
\* (Python: from 0, and -1 when absent).
find(s, tok) ==
    IF \E i \in 1..Len(s) : s[i] = tok
    THEN CHOOSE i \in 1..Len(s) : s[i] = tok /\ \A j \in 1..(i - 1) : s[j] # tok
    ELSE 0

\* s.rfind(c): the last index (from 1), 0 when absent.
rfind(s, tok) ==
    IF \E i \in 1..Len(s) : s[i] = tok
    THEN CHOOSE i \in 1..Len(s) : s[i] = tok /\ \A j \in (i + 1)..Len(s) : s[j] # tok
    ELSE 0

\* "sep".join(parts)
RECURSIVE join(_, _)
join(sep, parts) ==
    IF parts = <<>> THEN <<>>
    ELSE IF Len(parts) = 1 THEN parts[1]
    ELSE parts[1] \o sep \o join(sep, Tail(parts))

\* ---------------------------------------------------------------- float
Fin(v) == [k |-> "fin", v |-> v]
NaN == [k |-> "nan", v |-> 0]
PosInf == [k |-> "inf", v |-> 0]
NegInf == [k |-> "ninf", v |-> 0]

\* a < b on floats: every comparison with nan is false.
FLt(a, b) ==
    CASE a.k = "nan" \/ b.k = "nan" -> FALSE
      [] a.k = "ninf" -> b.k # "ninf"
      [] a.k = "inf" -> FALSE
      [] b.k = "inf" -> TRUE
      [] b.k = "ninf" -> FALSE
      [] OTHER -> a.v < b.v

\* a >= b on floats.
FGe(a, b) ==
    CASE a.k = "nan" \/ b.k = "nan" -> FALSE
      [] OTHER -> ~FLt(a, b)

\* Python's min(a, b) and max(a, b): the first argument unless the second
\* is strictly smaller (larger).
PyMin(a, b) == IF FLt(b, a) THEN b ELSE a
PyMax(a, b) == IF FLt(a, b) THEN b ELSE a

DigitVal(c) ==
    CASE c = "0" -> 0 [] c = "1" -> 1 [] c = "2" -> 2 [] c = "3" -> 3
      [] c = "4" -> 4 [] c = "5" -> 5 [] c = "6" -> 6 [] c = "7" -> 7
      [] c = "8" -> 8 [] c = "9" -> 9

AllDigits(s) == \A i \in 1..Len(s) : s[i][1] = "d"

\* The integer a digit string denotes.
RECURSIVE IntVal(_)
IntVal(s) ==
    IF s = <<>> THEN 0
    ELSE 10 * IntVal(SubSeq(s, 1, Len(s) - 1)) + DigitVal(s[Len(s)][2])

\* The hundredths a fraction digit string denotes (two digits are kept;
\* the replies of the model carry no more).
FracVal(s) ==
    IF s = <<>> THEN 0
    ELSE IF Len(s) = 1 THEN 10 * DigitVal(s[1][2])
    ELSE 10 * DigitVal(s[1][2]) + DigitVal(s[2][2])

\* The unsigned part of a float literal: digits [. [digits]] or . digits,
\* or one of the names float() accepts.
ParseUnsigned(s) ==
    LET dot == find(s, Ch("."))
        ip == IF dot = 0 THEN s ELSE SubSeq(s, 1, dot - 1)
        fp == IF dot = 0 THEN <<>> ELSE SubSeq(s, dot + 1, Len(s))
    IN  IF s \in {<<Wd("nan")>>, <<Wd("NaN")>>}
        THEN [ok |-> TRUE, val |-> NaN]
        ELSE IF s \in {<<Wd("inf")>>, <<Wd("Infinity")>>, <<Wd("infinity")>>}
        THEN [ok |-> TRUE, val |-> PosInf]
        ELSE IF /\ s # <<>>
                /\ AllDigits(ip) /\ AllDigits(fp)
                /\ Len(ip) + Len(fp) > 0
        THEN [ok |-> TRUE, val |-> Fin(100 * IntVal(ip) + FracVal(fp))]
        ELSE [ok |-> FALSE, val |-> NaN]

FNeg(x) ==
    CASE x.k = "fin" -> Fin(0 - x.v)
      [] x.k = "inf" -> NegInf
      [] x.k = "ninf" -> PosInf
      [] OTHER -> x

\* float(s): surrounding whitespace is ignored, one optional sign, then the
\* literal; ok is FALSE where Python raises ValueError.
ParseFloat(s) ==
    LET t == strip(s)
        signed == t # <<>> /\ Head(t) \in {Ch("+"), Ch("-")}
        body == IF signed THEN Tail(t) ELSE t
        u == ParseUnsigned(body)
    IN  IF u.ok /\ signed /\ Head(t) = Ch("-")
        THEN [ok |-> TRUE, val |-> FNeg(u.val)]
        ELSE u

\* ---------------------------------------------------------------- calls
\* What a Python call ends with: a value (exc = "none") or a raised
\* exception of class exc.  Every class used here derives from Exception.
Ok(v) == [exc |-> "none", val |-> v]
Raise(e) == [exc |-> e]
Raised(o) == o.exc # "none"

\* ---------------------------------------------------------------- model clients
\* Model names are token sequences whose first token is the routing prefix.
AzureName == <<Wd("Azure-gpt-"), Wd("4o")>>
BedrockName == <<Wd("Bedrock-claude"), Wd("-3")>>
AwsName == <<Wd("AWS-claude"), Wd("-3")>>
GeminiName == <<Wd("gemini-"), Wd("pro")>>
UnknownName == <<Wd("gpt-"), Wd("4")>>

startswith(s, prefix) == s # <<>> /\ Head(s) = Wd(prefix)

\* The outcomes of a backend SDK constructor: the client, or an exception
\* that the client class logs and re-raises.
SdkOutcomes == {"ok", "raise"}

\* create_model_client with the Azure backend for every other name.
create_model_client_lenient(model_name, sdk) ==
    LET backend ==
            IF startswith(model_name, "Bedrock-claude")
               \/ startswith(model_name, "AWS-claude") THEN "AWSBedrock"
            ELSE IF startswith(model_name, "gemini-") THEN "Gemini"
            ELSE "AzureOpenAI"
    IN  IF sdk = "raise" THEN Raise("Exception") ELSE Ok(backend)

\* create_model_client: routes on the prefix; an unknown prefix raises
\* ValueError; a constructor failure propagates.
create_model_client(model_name, sdk) ==
    LET backend ==
            IF startswith(model_name, "Azure-gpt-") THEN "AzureOpenAI"
            ELSE IF startswith(model_name, "Bedrock-claude")
                    \/ startswith(model_name, "AWS-claude") THEN "AWSBedrock"
            ELSE IF startswith(model_name, "gemini-") THEN "Gemini"
            ELSE None
    IN  IF backend = None THEN Raise("ValueError")
        ELSE IF sdk = "raise" THEN Raise("Exception")
        ELSE Ok(backend)

\* str(e) of the backend failures of the model.
ConnectionMessage == <<Wd("Connection"), Ws(" "), Wd("error"), Ch(".")>>
RateLimitMessage ==
    <<Wd("Error"), Ws(" "), Wd("code"), Ch(":"), Ws(" "), Dg("4"), Dg("2"), Dg("9"),
      Ws(" "), Ch("-"), Ws(" "), Ch("{"), Wd("'error'"), Ch(":"), Ws(" "),
      Wd("'rate'"), Ch("}")>>
ErrorMessages == {ConnectionMessage, RateLimitMessage}

\* f"<backend> Error: {str(e)}"
ErrorString(backend, msg) ==
    <<Wd(backend), Ws(" "), Wd("Error"), Ch(":"), Ws(" ")>> \o msg

IsErrorString(s) ==
    /\ Len(s) >= 5
    /\ SubSeq(s, 1, 5) \in
         { <<Wd(b), Ws(" "), Wd("Error"), Ch(":"), Ws(" ")>> :
             b \in {"AzureOpenAI", "AWSBedrock", "Gemini"} }

\* What the backend does with one request: it answers with a completion,
\* or the request fails with one of the messages.
BackendAnswer(text) == [fails |-> FALSE, text |-> text]
BackendFailure(msg) == [fails |-> TRUE, text |-> msg]

\* send_request with the failure message returned bare.
send_request_untagged(backend, out) ==
    IF out.fails THEN out.text ELSE strip(out.text)

\* send_request (text-only request): one backend request; the completion,
\* stripped, or the error string.  It never raises.
send_request(backend, out) ==
    IF out.fails THEN ErrorString(backend, out.text) ELSE strip(out.text)

\* One invocation of send_request against a backend that does script[n]
\* with the n-th request made of it: the string returned and the number of
\* requests made (one request statement, in no loop and under no decorator).
send_request_call(backend, script) ==
    [text |-> send_request(backend, script[1]), requests |-> 1]

\* ---------------------------------------------------------------- scoring
\* calculate_usability_score: sdk is the outcome of building the client and
\* out what the backend does with the scoring request.
\* calculate_usability_score with the parsed score returned as it is.
calculate_usability_score_unclamped(model_name, sdk, out) ==
    LET client == create_model_client(model_name, sdk) IN
    IF Raised(client) THEN client
    ELSE LET p == ParseFloat(strip(send_request(client.val, out)))
         IN  IF p.ok THEN Ok(p.val) ELSE Ok(Fin(300))

calculate_usability_score_body(model_name, sdk, out) ==
    LET client == create_model_client(model_name, sdk) IN
    IF Raised(client) THEN client
    ELSE LET score_text == send_request(client.val, out)
             p == ParseFloat(strip(score_text))
         IN  IF p.ok
             THEN Ok(PyMax(Fin(100), PyMin(Fin(500), p.val)))
             ELSE Ok(Fin(300))

calculate_usability_score(model_name, sdk, out) ==
    LET r == calculate_usability_score_body(model_name, sdk, out) IN
    IF Raised(r) THEN Ok(Fin(300)) ELSE r

\* get_usability_rating with > for >=.
get_usability_rating_strict(score) ==
    IF FLt(Fin(450), score) THEN "Excellent"
    ELSE IF FLt(Fin(400), score) THEN "Very Good"
    ELSE IF FLt(Fin(350), score) THEN "Good"
    ELSE IF FLt(Fin(300), score) THEN "Fair"
    ELSE IF FLt(Fin(250), score) THEN "Poor"
    ELSE "Very Poor"

\* get_usability_rating without the "Very Good" band.
get_usability_rating_coarse(score) ==
    IF FGe(score, Fin(450)) THEN "Excellent"
    ELSE IF FGe(score, Fin(350)) THEN "Good"
    ELSE IF FGe(score, Fin(300)) THEN "Fair"
    ELSE IF FGe(score, Fin(250)) THEN "Poor"
    ELSE "Very Poor"

\* get_usability_rating
get_usability_rating(score) ==
    IF FGe(score, Fin(450)) THEN "Excellent"
    ELSE IF FGe(score, Fin(400)) THEN "Very Good"
    ELSE IF FGe(score, Fin(350)) THEN "Good"
    ELSE IF FGe(score, Fin(300)) THEN "Fair"
    ELSE IF FGe(score, Fin(250)) THEN "Poor"
    ELSE "Very Poor"

\* ---------------------------------------------------------------- json
\* JSON values as json.loads builds them.  A dict is a function from its
\* keys; a number is in hundredths.
JStr(x) == [t |-> "str", v |-> x]
JNum(n) == [t |-> "num", v |-> n]
JWord(w) == [t |-> "word", v |-> w]
JArr(a) == [t |-> "arr", v |-> a]
JObj(f) == [t |-> "obj", v |-> f]
EmptyDict == [k \in {} |-> None]

JFail == [ok |-> FALSE, val |-> None, nxt |-> 0]
JOk(v, n) == [ok |-> TRUE, val |-> v, nxt |-> n]

\* The first index from i on that holds no whitespace (Len + 1 at the end).
RECURSIVE SkipWs(_, _)
SkipWs(s, i) == IF i <= Len(s) /\ IsWs(s[i]) THEN SkipWs(s, i + 1) ELSE i

\* The first index from i on that holds no digit.
RECURSIVE SkipDigits(_, _)
SkipDigits(s, i) ==
    IF i <= Len(s) /\ s[i][1] = "d" THEN SkipDigits(s, i + 1) ELSE i

\* A JSON number at i: [-] (0 | digits) [. digits].
JNumber(s, i) ==
    LET neg == i <= Len(s) /\ s[i] = Ch("-")
        a == IF neg THEN i + 1 ELSE i
        b == IF a <= Len(s) /\ s[a] = Dg("0") THEN a + 1 ELSE SkipDigits(s, a)
        dot == b <= Len(s) /\ s[b] = Ch(".")
        c == IF dot THEN SkipDigits(s, b + 1) ELSE b
        mag == 100 * IntVal(SubSeq(s, a, b - 1))
                 + (IF dot THEN FracVal(SubSeq(s, b + 1, c - 1)) ELSE 0)
    IN  IF b = a \/ (dot /\ c = b + 1) THEN JFail
        ELSE JOk(JNum(IF neg THEN 0 - mag ELSE mag), c)

RECURSIVE JValue(_, _)
RECURSIVE JMembers(_, _, _)
RECURSIVE JElements(_, _, _)

\* One JSON value, leading whitespace skipped.
JValue(s, i0) ==
    LET i == SkipWs(s, i0) IN
    IF i > Len(s) THEN JFail
    ELSE LET tok == s[i]
             j == SkipWs(s, i + 1)
         IN  CASE tok[1] = "lit" -> JOk(JStr(tok[2]), i + 1)
               [] tok = Ch("{") ->
                    IF j <= Len(s) /\ s[j] = Ch("}")
                    THEN JOk(JObj(EmptyDict), j + 1)
                    ELSE JMembers(s, j, EmptyDict)
               [] tok = Ch("[") ->
                    IF j <= Len(s) /\ s[j] = Ch("]")
                    THEN JOk(JArr(<<>>), j + 1)
                    ELSE JElements(s, j, <<>>)
               [] tok \in {Wd("true"), Wd("false"), Wd("null"),
                           Wd("NaN"), Wd("Infinity")} -> JOk(JWord(tok[2]), i + 1)
               [] tok[1] = "d" \/ tok = Ch("-") -> JNumber(s, i)
               [] OTHER -> JFail

\* The members of an object from a key at i on; a repeated key keeps the
\* last value.
JMembers(s, i, acc) ==
    IF i > Len(s) \/ s[i][1] # "lit" THEN JFail
    ELSE LET c == SkipWs(s, i + 1) IN
         IF c > Len(s) \/ s[c] # Ch(":") THEN JFail
         ELSE LET v == JValue(s, c + 1) IN
              IF ~v.ok THEN JFail
              ELSE LET e == SkipWs(s, v.nxt)
                       acc2 == [k \in DOMAIN acc \cup {s[i][2]} |->
                                   IF k = s[i][2] THEN v.val ELSE acc[k]]
                   IN  IF e > Len(s) THEN JFail
                       ELSE IF s[e] = Ch("}") THEN JOk(JObj(acc2), e + 1)
                       ELSE IF s[e] = Ch(",") THEN JMembers(s, SkipWs(s, e + 1), acc2)
                       ELSE JFail

\* The elements of an array from i on.
JElements(s, i, acc) ==
    LET v == JValue(s, i) IN
    IF ~v.ok THEN JFail
    ELSE LET e == SkipWs(s, v.nxt) IN
         IF e > Len(s) THEN JFail
         ELSE IF s[e] = Ch("]") THEN JOk(JArr(Append(acc, v.val)), e + 1)
         ELSE IF s[e] = Ch(",") THEN JElements(s, e + 1, Append(acc, v.val))
         ELSE JFail

\* json.loads(s): one value and nothing but whitespace after it; a failure
\* is json.JSONDecodeError.
json_loads(s) ==
    LET v == JValue(s, 1) IN
    IF v.ok /\ SkipWs(s, v.nxt) > Len(s) THEN Ok(v.val) ELSE Raise("JSONDecodeError")

\* s.replace('\n', ' ').replace('\r', '')
NotCarriageReturn(tok) == tok # Ws("\r")

replace_newlines(s) ==
    SelectSeq([i \in 1..Len(s) |->
                  IF s[i] = Ws("\n") THEN Ws(" ")
                  ELSE IF s[i][1] = "litnl" THEN Lit(s[i][2])
                  ELSE s[i]],
              NotCarriageReturn)

\* ---------------------------------------------------------------- summary
Placeholder ==
    JObj([k \in {"summary", "quote"} |->
            IF k = "summary" THEN JStr("Error processing feedback") ELSE JStr("N/A")])

\* create_default_summary
create_default_summary ==
    JObj([k \in {"Value_Offering", "Feature_Usefulness", "Ease_of_Use",
                 "Discoverability", "Design_Appeal"} |-> Placeholder])

\* The markdown code fence: three backquotes, written <fence> here, and
\* the opening fence with its language tag (7 characters).
Fence == Wd("<fence>")
FenceJson == Wd("<fence>json")

\* The cleaning of the reply: strip, drop a leading opening fence
\* (result[7:]), drop a trailing fence (result[:-3]), strip.
clean_response(result) ==
    LET a == strip(result)
        b == IF a # <<>> /\ Head(a) = FenceJson THEN Tail(a) ELSE a
        c == IF b # <<>> /\ b[Len(b)] = Fence THEN SubSeq(b, 1, Len(b) - 1) ELSE b
    IN  strip(c)

\* The handler of the first json.JSONDecodeError: the text from the first
\* '{' to the last '}' is parsed, line breaks replaced.
extract_json(result) ==
    LET start == find(result, Ch("{"))
        end == rfind(result, Ch("}"))
    IN  IF start >= 1 /\ end >= start
        THEN LET cleaned_json == replace_newlines(SubSeq(result, start, end))
                 second == json_loads(cleaned_json)
             IN  IF Raised(second) THEN Ok(create_default_summary) ELSE second
        ELSE Ok(create_default_summary)

format_feedback_summary_body(model_name, sdk, out) ==
    LET client == create_model_client(model_name, sdk) IN
    IF Raised(client) THEN client
    ELSE LET result == clean_response(send_request(client.val, out))
             first == json_loads(result)
         IN  IF Raised(first) THEN extract_json(result) ELSE first

\* format_feedback_summary with no outer handler.
format_feedback_summary_unguarded(model_name, sdk, out) ==
    format_feedback_summary_body(model_name, sdk, out)

\* format_feedback_summary: sdk is the outcome of building the client and
\* out what the backend does with the structuring request.
format_feedback_summary(model_name, sdk, out) ==
    LET r == format_feedback_summary_body(model_name, sdk, out) IN
    IF Raised(r) THEN Ok(create_default_summary) ELSE r

\* ---------------------------------------------------------------- registry
\* personas: the persona registry (id -> name).
personas ==
    [p \in {"internet_first_entrepreneur", "hybrid_emerging_business"} |->
        IF p = "internet_first_entrepreneur"
        THEN [name |-> "Internet First Entrepreneur"]
        ELSE [name |-> "Hybrid Emerging Business"]]

DefaultPersonas == <<"internet_first_entrepreneur">>

\* FlowType, each member written as its value.
FlowType ==
    {"checkout", "payment", "onboarding", "dashboard", "analytics", "general",
     "ethical", "visual", "pricing", "content", "gamification", "cart"}

\* The number of principles the catalog lists under a flow type.
PrincipleCount(f) ==
    CASE f = "general" -> 21 [] f = "checkout" -> 15 [] f = "payment" -> 4
      [] f = "onboarding" -> 4 [] f = "dashboard" -> 4 [] f = "analytics" -> 4
      [] f = "ethical" -> 15 [] f = "visual" -> 15 [] f = "pricing" -> 15
      [] f = "content" -> 15 [] f = "gamification" -> 15 [] f = "cart" -> 16

\* self.principles.get(f, []): the i-th principle of f is written <<f, i>>.
principles(f) == [i \in 1..PrincipleCount(f) |-> <<f, i>>]

\* get_principles_for_flow with a universal flow type listed once.
get_principles_for_flow_once(f) ==
    LET universal == <<"general", "ethical", "visual", "pricing", "content",
                       "gamification", "cart">>
        rest == SelectSeq(universal, LAMBDA g : g # f)
        RECURSIVE all(_)
        all(q) == IF q = <<>> THEN <<>> ELSE principles(Head(q)) \o all(Tail(q))
    IN  principles(f) \o all(rest)

\* UXPrinciplesManager.get_principles_for_flow
get_principles_for_flow(f) ==
    principles(f) \o principles("general") \o principles("ethical")
        \o principles("visual") \o principles("pricing") \o principles("content")
        \o principles("gamification") \o principles("cart")

\* ---------------------------------------------------------------- report
\* The text before the last colon, where the code takes the first.
feature_name_of_last_colon(text) ==
    LET c == rfind(text, Ch(":")) IN
    IF c > 0 THEN SubSeq(text, 1, c - 1) ELSE text

\* feature_text.split(":")[0] if ":" in feature_text else feature_text
feature_name_of(text) ==
    LET c == find(text, Ch(":")) IN
    IF c > 0 THEN SubSeq(text, 1, c - 1) ELSE text

\* flow_type.value if flow_type else "general"
flow_value_of(flow) == IF flow # None THEN flow ELSE "general"

\* The dict run_feature_test returns.
Report(text, flow, test_results) ==
    [feature_name |-> feature_name_of(text),
     flow_type |-> flow_value_of(flow),
     test_results |-> test_results]

\* run_feature_test with no outermost handler.
run_feature_test_reraise(exc, text, flow) == Raise(exc)

\* The outermost handler of run_feature_test: except Exception returns the
\* report with no results.
run_feature_test_except(exc, text, flow) == Ok(Report(text, flow, <<>>))

\* The store query result of run_feature_test, flattened: documents[0]
\* when the result has a non-empty documents list, else no documents.
retrieved_docs_texts_of(chroma_results) ==
    IF /\ chroma_results.kind = "dict"
       /\ chroma_results.documents.kind = "list"
       /\ Len(chroma_results.documents.v) > 0
    THEN chroma_results.documents.v[1]
    ELSE <<>>

\* The default taken for an absent list only: an empty list stays empty.
names_or_default_for_none(persona_names) ==
    IF persona_names.kind = "list" THEN persona_names.v ELSE DefaultPersonas

\* persona_names or ["internet_first_entrepreneur"]
names_or_default(persona_names) ==
    IF persona_names.kind = "list" /\ persona_names.v # <<>>
    THEN persona_names.v
    ELSE DefaultPersonas

\* generate_context_keywords: sdk is the outcome of building the client, out
\* what the backend does with the summarizing request.  analyze_image ends
\* in its own handler and returns "", so an image changes only the prompt.
generate_context_keywords_body(text, model_name, sdk, out) ==
    LET client == create_model_client(model_name, sdk) IN
    IF Raised(client) THEN client ELSE Ok(send_request(client.val, out))

generate_context_keywords(text, model_name, sdk, out) ==
    LET r == generate_context_keywords_body(text, model_name, sdk, out) IN
    IF Raised(r) THEN Ok(text) ELSE r

\* ---------------------------------------------------------------- bounds
\* The longest persona_names list a run is given (a list names no id twice).
MaxPersonas == 2
\* The largest score (in hundredths) get_usability_rating is called with.
MaxScoreArg == 600

\* The largest max_retries a decorator is given besides the default.
MaxRetriesArg == 5

\* ---------------------------------------------------------------- inputs
FixedCategories ==
    <<"Value Offering", "Feature Usefulness", "Ease of Use", "Discoverability",
      "Design Appeal">>

\* "<key>": {"summary": <s>, "quote": "q"}
EntryText(key, s) ==
    <<Lit(key), Ch(":"), Ws(" "), Ch("{"), Lit("summary"), Ch(":"), Ws(" "), s,
      Ch(","), Ws(" "), Lit("quote"), Ch(":"), Ws(" "), Lit("q"), Ch("}")>>

RECURSIVE EntriesText(_, _)
EntriesText(keys, s) ==
    IF Len(keys) = 1 THEN EntryText(keys[1], s)
    ELSE EntryText(keys[1], s) \o <<Ch(","), Ws("\n")>> \o EntriesText(Tail(keys), s)

ObjectText(keys, s) == <<Ch("{")>> \o EntriesText(keys, s) \o <<Ch("}")>>

WellFormedText == ObjectText(FixedCategories, Lit("s"))

\* Replies of the model to the structuring prompt.
SummaryReplies ==
    { WellFormedText,
      <<Ws(" ")>> \o WellFormedText \o <<Ws("\n")>>,
      <<FenceJson, Ws("\n")>> \o WellFormedText \o <<Ws("\n"), Fence>>,
      <<Fence, Ws("\n")>> \o WellFormedText \o <<Ws("\n"), Fence>>,
      <<Wd("Here"), Ws(" "), Wd("it"), Ws(" "), Wd("is"), Ch(":"), Ws("\n")>>
          \o WellFormedText \o <<Ws("\n"), Wd("Thanks")>>,
      ObjectText(FixedCategories, LitNl("s t")),
      SubSeq(WellFormedText, 1, Len(WellFormedText) - 1),
      ObjectText(<<"Value Offering", "Ease of Use">>, Lit("s")),
      ObjectText(<<"Value_Offering", "Feature_Usefulness", "Ease_of_Use",
                   "Discoverability", "Design_Appeal">>, Lit("s")),
      ObjectText(FixedCategories \o <<"Overall">>, Lit("s")),
      <<Ch("{"), Ch("}")>>,
      <<Ch("["), Lit("Value Offering"), Ch("]")>>,
      <<Dg("4"), Ch("."), Dg("5")>>,
      <<Ch("{"), Ws(" "), Wd("oops"), Ws(" "), Ch("}")>>,
      <<Wd("I"), Ws(" "), Wd("cannot"), Ws(" "), Wd("comply"), Ch(".")>>,
      <<>> }

\* Replies of the model to the scoring prompt.
ScoreReplies ==
    { <<Dg("4"), Ch("."), Dg("5")>>,
      <<Ws(" "), Dg("4"), Ch("."), Dg("5"), Ws("\n")>>,
      <<Dg("4"), Ch("."), Dg("4"), Dg("9")>>,
      <<Dg("1"), Ch("."), Dg("0")>>,
      <<Dg("5"), Ch("."), Dg("0")>>,
      <<Dg("2"), Ch("."), Dg("5")>>,
      <<Dg("3")>>,
      <<Dg("0"), Ch("."), Dg("5")>>,
      <<Dg("7")>>,
      <<Dg("1"), Dg("0")>>,
      <<Ch("-"), Dg("2")>>,
      <<Ch("+"), Dg("4"), Ch(".")>>,
      <<Ch("."), Dg("5")>>,
      <<Wd("nan")>>,
      <<Wd("inf")>>,
      <<Ch("-"), Wd("inf")>>,
      <<Dg("4"), Ch("."), Dg("5"), Wd("/"), Dg("5")>>,
      <<Wd("Score"), Ch(":"), Ws(" "), Dg("4")>>,
      <<Dg("4"), Ws(" "), Dg("5")>>,
      <<Wd("abc")>>,
      <<>> }

\* Replies of the model to the persona prompt and to the summarizing prompt.
FeedbackText == <<Wd("Useful"), Ws(" "), Wd("feature"), Ch(".")>>
KeywordsText == <<Wd("checkout"), Ch(","), Ws(" "), Wd("mobile")>>

ModelNames == {AzureName, BedrockName, AwsName, GeminiName, UnknownName}

\* What the backend can do with a request whose possible answers are replies
\* and whose possible failures are messages.
BackendOutcomes(replies, messages) ==
    {BackendAnswer(r) : r \in replies} \cup {BackendFailure(m) : m \in messages}

\* The backend failure a run is checked with (the direct calls take all).
RunErrorMessages == {ConnectionMessage}

FeatureTexts ==
    { <<Wd("Checkout"), Ws(" "), Wd("Redesign"), Ch(":"), Ws(" "), Wd("one"),
        Ws(" "), Wd("page"), Ws(" "), Wd("mobile"), Ws(" "), Wd("checkout")>>,
      <<Wd("Saved"), Ws(" "), Wd("cards")>>,
      <<Wd("Cart"), Ch(":"), Ws(" "), Wd("save"), Ch(":"), Ws(" "), Wd("later")>> }

PersonaIds == DOMAIN personas \cup {"does_not_exist"}

NoList == [kind |-> "none", v |-> <<>>]
SomeList(l) == [kind |-> "list", v |-> l]

\* persona_names: absent, or an ordered set of ids (no id twice).
PersonaLists ==
    {NoList} \cup
    {SomeList(l) : l \in
        {q \in UNION {[1..n -> PersonaIds] : n \in 0..MaxPersonas} :
            \A i, j \in DOMAIN q : q[i] = q[j] => i = j}}

\* A document of the store collection.
Doc(id, document, metadata) == [id |-> id, document |-> document, metadata |-> metadata]

PriorDoc ==
    Doc(0, <<Wd("Merchants"), Ws(" "), Wd("want"), Ws(" "), Wd("fewer"), Ws(" "),
             Wd("steps")>>,
        [persona |-> "", feature |-> <<>>, score |-> Fin(0),
         type |-> "conversation", original_id |-> 0])

InitialStores == {<<>>, <<PriorDoc>>}

\* ---------------------------------------------------------------- store
\* n_results of ChromaDBManager.query
DefaultNResults == 5

NoDocuments == [kind |-> "none", v |-> <<>>]
ListOf(v) == [kind |-> "list", v |-> v]
NoResult == [kind |-> "none", documents |-> NoDocuments]
DictResult(documents) == [kind |-> "dict", documents |-> documents]

\* The documents of the first n entries of the collection.
FirstDocuments(st, n) ==
    [i \in 1..(IF Len(st) < n THEN Len(st) ELSE n) |-> st[i].document]

\* ChromaDBManager.query: what collection.query can hand back for one
\* query text (the nested result, or a result with no documents in one of
\* three shapes); it can also raise, and query lets that through.
query_results(st, n_results) ==
    { DictResult(ListOf(<<FirstDocuments(st, n_results)>>)),
      DictResult(ListOf(<<>>)),
      DictResult(NoDocuments),
      NoResult }

StoreOutcomes == {"ok", "raise"}

\* ---------------------------------------------------------------- state
VARIABLES
    feature_text, flow_type, persona_names, model_name,  \* arguments of the run
    store,          \* the documents of the collection, oldest first
    uuid_count,     \* how many ids uuid.uuid4() has handed out
    pc,             \* where run_feature_test stands
    client,         \* the backend of the client built on entry
    context_query, chroma_results, context, ux_principles,
    idx,            \* the position of the persona loop in the names
    query, feedback, score, summary,
    results,
    raised_at,      \* the call whose exception reached the outermost handler
    outcome,        \* what run_feature_test ended with
    call, ret,      \* a direct call of one function, and what it ended with
    retries, delay, \* the locals of the retry wrapper (delay in hundredths of a second)
    calls,          \* how many times the wrapper has called the wrapped function
    rate_limited,   \* how many of those calls raised an error whose text holds 429
    sleeps,         \* how many times the wrapper has called time.sleep
    error_str,      \* str(e) of the error the wrapper caught last
    sleep_time      \* the argument of the last time.sleep, in hundredths of a second

\* Two sessions of the application on one collection, each calling
\* run_feature_test and then save_test_results.
VARIABLES
    runs,           \* per session: the arguments, locals and outcome of its run
    clock,          \* the wall clock, in whole seconds
    files           \* processed_documents: file name -> the report dumped into it

args == <<feature_text, flow_type, persona_names, model_name>>
sessions == <<runs, clock, files>>
locals == <<client, context_query, chroma_results, context, ux_principles, idx, query, feedback,
            score, summary, results>>
frame == <<retries, delay, calls, rate_limited, sleeps, error_str, sleep_time>>
vars == <<args, sessions, store, uuid_count, pc, locals, raised_at, outcome, call, ret, frame>>

Pending == [exc |-> "pending"]
NoCall == [fn |-> "none"]
NoQuery == [persona_name |-> "", feature_description |-> <<>>, context |-> <<>>,
            ux_principles |-> <<>>]

IdleLocals ==
    /\ client = None
    /\ context_query = <<>>
    /\ chroma_results = NoResult
    /\ context = <<>>
    /\ ux_principles = <<>>
    /\ idx = 1
    /\ query = NoQuery
    /\ feedback = <<>>
    /\ score = Fin(0)
    /\ summary = JObj(EmptyDict)
    /\ results = <<>>

\* No session is open.
IdleSessions ==
    /\ runs = <<>>
    /\ clock = 0
    /\ files = <<>>

\* No wrapped call is running.
IdleFrame ==
    /\ retries = 0
    /\ delay = 0
    /\ calls = 0
    /\ rate_limited = 0
    /\ sleeps = 0
    /\ error_str = <<>>
    /\ sleep_time = 0

\* A run of run_feature_test about to start, for each choice of arguments
\* and each state of the collection.
Init ==
    /\ feature_text \in FeatureTexts
    /\ flow_type \in {None, "checkout"}
    /\ persona_names \in PersonaLists
    /\ model_name \in {AzureName, UnknownName}
    /\ store \in InitialStores
    /\ uuid_count = 0
    /\ pc = "create_client"
    /\ IdleLocals
    /\ raised_at = "none"
    /\ outcome = Pending
    /\ IdleSessions
    /\ call = NoCall
    /\ ret = Pending
    /\ IdleFrame

\* An exception reaches a handler that returns the results assembled
\* before the failing turn.
ExceptKeepsResults(where, exc) ==
    /\ raised_at' = where
    /\ outcome' = Ok(Report(feature_text, flow_type, results))
    /\ pc' = "done"

\* An exception reaches the outermost handler.
Except(where, exc) ==
    /\ raised_at' = where
    /\ outcome' = run_feature_test_except(exc, feature_text, flow_type)
    /\ pc' = "done"

names == names_or_default(persona_names)

\* client = create_model_client(model_name)
CreateClient ==
    /\ pc = "create_client"
    /\ \E sdk \in SdkOutcomes :
         LET c == create_model_client(model_name, sdk) IN
         IF Raised(c)
         THEN /\ Except("create_model_client", c.exc)
              /\ UNCHANGED client
         ELSE /\ client' = c.val
              /\ pc' = "keywords"
              /\ UNCHANGED <<raised_at, outcome>>
    /\ UNCHANGED <<args, sessions, store, uuid_count, context_query, chroma_results, context,
                   ux_principles,
                   idx, query, feedback, score, summary, results, call, ret, frame>>

\* Step 1: context_query = generate_context_keywords(...)
GenerateContextKeywords ==
    /\ pc = "keywords"
    /\ \E sdk \in SdkOutcomes, out \in BackendOutcomes({KeywordsText}, RunErrorMessages) :
         LET r == generate_context_keywords(feature_text, model_name, sdk, out) IN
         IF Raised(r)
         THEN /\ Except("generate_context_keywords", r.exc)
              /\ UNCHANGED context_query
         ELSE /\ context_query' = r.val
              /\ pc' = "retrieve"
              /\ UNCHANGED <<raised_at, outcome>>
    /\ UNCHANGED <<args, sessions, store, uuid_count, client, chroma_results, context,
                   ux_principles,
                   idx, query, feedback, score, summary, results, call, ret, frame>>

\* Step 2: chroma_manager.query(context_query), flattened and joined.
RetrieveContext ==
    /\ pc = "retrieve"
    /\ \/ /\ Except("query", "Exception")
          /\ UNCHANGED <<chroma_results, context>>
       \/ \E res \in query_results(store, DefaultNResults) :
            /\ chroma_results' = res
            /\ context' = join(<<Ws("\n"), Ws("\n")>>, retrieved_docs_texts_of(res))
            /\ pc' = "principles"
            /\ UNCHANGED <<raised_at, outcome>>
    /\ UNCHANGED <<args, sessions, store, uuid_count, client, context_query, ux_principles,
                   idx, query, feedback, score, summary, results, call, ret, frame>>

\* Step 3: the principles of the flow type, if one is given.
SelectPrinciples ==
    /\ pc = "principles"
    /\ ux_principles' =
         IF flow_type # None THEN get_principles_for_flow(flow_type) ELSE <<>>
    /\ pc' = "loop"
    /\ UNCHANGED <<args, sessions, store, uuid_count, client, context_query,
                   chroma_results, context,
                   idx, query, feedback, score, summary, results, raised_at,
                   outcome, call, ret, frame>>

\* The loop meets a name that is not in the registry: break.
SkipPersonaBreaks ==
    /\ pc = "loop"
    /\ idx <= Len(names)
    /\ names[idx] \notin DOMAIN personas
    /\ idx' = Len(names) + 1
    /\ UNCHANGED <<args, sessions, store, uuid_count, pc, client, context_query, chroma_results,
                   context, ux_principles, query, feedback, score, summary, results,
                   raised_at, outcome, call, ret, frame>>

\* The loop meets a name that is not in the registry: continue.
SkipPersona ==
    /\ pc = "loop"
    /\ idx <= Len(names)
    /\ names[idx] \notin DOMAIN personas
    /\ idx' = idx + 1
    /\ UNCHANGED <<args, sessions, store, uuid_count, pc, client, context_query, chroma_results,
                   context,
                   ux_principles, query, feedback, score, summary, results,
                   raised_at, outcome, call, ret, frame>>

\* The prompt of one persona, with the store queried again for it.
render_query_requeried(persona_name) ==
    [persona_name |-> personas[persona_name].name,
     feature_description |-> feature_text,
     context |-> join(<<Ws("\n"), Ws("\n")>>, FirstDocuments(store, DefaultNResults)),
     ux_principles |-> ux_principles]

\* test_query_template.format(...) for one persona.
render_query(persona_name) ==
    [persona_name |-> personas[persona_name].name,
     feature_description |-> feature_text,
     context |-> context,
     ux_principles |-> ux_principles]

\* The prompt is rendered and feedback = client.send_request(query).
GetFeedback ==
    /\ pc = "loop"
    /\ idx <= Len(names)
    /\ names[idx] \in DOMAIN personas
    /\ query' = render_query(names[idx])
    /\ \E out \in BackendOutcomes({FeedbackText}, RunErrorMessages) :
         feedback' = send_request(client, out)
    /\ pc' = "score"
    /\ UNCHANGED <<args, sessions, store, uuid_count, client, context_query,
                   chroma_results, context,
                   ux_principles, idx, score, summary, results, raised_at,
                   outcome, call, ret, frame>>

\* The scoring replies a run is checked with (the direct calls take all).
RunScoreReplies ==
    {<<Dg("4"), Ch("."), Dg("5")>>, <<Wd("abc")>>}

\* score = calculate_usability_score(feedback, model_name)
CalculateScore ==
    /\ pc = "score"
    /\ \E sdk \in SdkOutcomes, out \in BackendOutcomes(RunScoreReplies, RunErrorMessages) :
         LET r == calculate_usability_score(model_name, sdk, out) IN
         IF Raised(r)
         THEN /\ Except("calculate_usability_score", r.exc)
              /\ UNCHANGED score
         ELSE /\ score' = r.val
              /\ pc' = "summary"
              /\ UNCHANGED <<raised_at, outcome>>
    /\ UNCHANGED <<args, sessions, store, uuid_count, client, context_query,
                   chroma_results, context,
                   ux_principles, idx, query, feedback, summary, results, call, ret, frame>>

\* The structuring replies a run is checked with (the direct calls take all).
RunSummaryReplies ==
    {WellFormedText, <<Wd("I"), Ws(" "), Wd("cannot"), Ws(" "), Wd("comply"), Ch(".")>>}

\* summary = format_feedback_summary(feedback, model_name)
FormatSummary ==
    /\ pc = "summary"
    /\ \E sdk \in SdkOutcomes, out \in BackendOutcomes(RunSummaryReplies, RunErrorMessages) :
         LET r == format_feedback_summary(model_name, sdk, out) IN
         IF Raised(r)
         THEN /\ Except("format_feedback_summary", r.exc)
              /\ UNCHANGED summary
         ELSE /\ summary' = r.val
              /\ pc' = "store"
              /\ UNCHANGED <<raised_at, outcome>>
    /\ UNCHANGED <<args, sessions, store, uuid_count, client, context_query,
                   chroma_results, context,
                   ux_principles, idx, query, feedback, score, results, call, ret, frame>>

\* The dict appended to results for one persona.
result_entry(persona_name, sc, summ, fb) ==
    [persona |-> persona_name,
     usability_score |-> [score |-> sc, rating |-> get_usability_rating(sc)],
     feedback_summary |-> summ,
     raw_feedback |-> fb]

\* The document written under the id of the first one, whatever id is given.
feedback_doc_reused_id(feedback_id, persona_name, fb, sc) ==
    Doc(1, fb,
        [persona |-> persona_name, feature |-> feature_text, score |-> sc,
         type |-> "feedback", original_id |-> 1])

\* The document written with an error string left out of it.
feedback_doc_without_errors(feedback_id, persona_name, fb, sc) ==
    Doc(feedback_id, IF IsErrorString(fb) THEN <<>> ELSE fb,
        [persona |-> persona_name, feature |-> feature_text, score |-> sc,
         type |-> "feedback", original_id |-> feedback_id])

\* The document written for one persona.
feedback_doc(feedback_id, persona_name, fb, sc) ==
    Doc(feedback_id, fb,
        [persona |-> persona_name, feature |-> feature_text, score |-> sc,
         type |-> "feedback", original_id |-> feedback_id])

\* collection.add that keeps only the documents just added.
add_documents_replacing(st, doc, collection_add) ==
    IF collection_add = "raise" THEN Raise("Exception") ELSE Ok(<<doc>>)

\* ChromaDBManager.add_documents: collection.add, and an exception of it is
\* logged and raised again.
add_documents(st, doc, collection_add) ==
    IF collection_add = "raise" THEN Raise("Exception") ELSE Ok(Append(st, doc))

\* results.append(...), and the loop goes on to the next name with the
\* feedback not yet written.
StoreResultUnwritten ==
    /\ pc = "store"
    /\ results' = Append(results, result_entry(names[idx], score, summary, feedback))
    /\ idx' = idx + 1
    /\ pc' = "loop"
    /\ UNCHANGED <<args, sessions, store, uuid_count, client, context_query,
                   chroma_results, context,
                   ux_principles, query, feedback, score, summary, raised_at, outcome,
                   call, ret, frame>>

\* results.append(...), then the feedback is written to the store under a
\* new id; the loop goes on to the next name.
StoreResult ==
    /\ pc = "store"
    /\ results' = Append(results, result_entry(names[idx], score, summary, feedback))
    /\ uuid_count' = uuid_count + 1
    /\ \E collection_add \in StoreOutcomes :
         LET r == add_documents(store,
                     feedback_doc(uuid_count + 1, names[idx], feedback, score),
                     collection_add)
         IN  IF Raised(r)
             THEN /\ Except("add_documents", r.exc)
                  /\ UNCHANGED <<store, idx>>
             ELSE /\ store' = r.val
                  /\ idx' = idx + 1
                  /\ pc' = "loop"
                  /\ UNCHANGED <<raised_at, outcome>>
    /\ UNCHANGED <<args, sessions, client, context_query, chroma_results, context, ux_principles,
                   query,
                   feedback, score, summary, call, ret, frame>>

\* The loop is over: the report is returned.
ReturnReport ==
    /\ pc = "loop"
    /\ idx > Len(names)
    /\ outcome' = Ok(Report(feature_text, flow_type, results))
    /\ pc' = "done"
    /\ UNCHANGED <<args, sessions, store, uuid_count, locals, raised_at, call, ret, frame>>

Next ==
    \/ CreateClient
    \/ GenerateContextKeywords
    \/ RetrieveContext
    \/ SelectPrinciples
    \/ SkipPersona
    \/ GetFeedback
    \/ CalculateScore
    \/ FormatSummary
    \/ StoreResult
    \/ ReturnReport

Spec == Init /\ [][Next]_vars

\* ---------------------------------------------------------------- direct calls
\* One function called on its own, for each choice of its arguments and of
\* what the model client does during the call.
Call(fn, name, sdk, out, arg) ==
    [fn |-> fn, model_name |-> name, sdk |-> sdk, out |-> out, arg |-> arg]

Floats == {Fin(v) : v \in 0..MaxScoreArg} \cup {NaN, PosInf, NegInf}

\* Names with a routing prefix, with none, with one in another case, with
\* one that is not at the start, and the empty name.
RoutingNames ==
    ModelNames \cup
    { <<Wd("Azure-gpt-")>>, <<Wd("azure-gpt-"), Wd("4o")>>, <<Wd("gemini"), Wd("pro")>>,
      <<Wd("my-"), Wd("gemini-"), Wd("pro")>>, <<Wd("claude"), Wd("-3")>>, <<>> }

\* What the backend does with a first request and with the one after it.
BackendScripts ==
    {<<o1, o2>> : o1 \in BackendOutcomes({FeedbackText}, ErrorMessages),
                  o2 \in BackendOutcomes({FeedbackText}, {RateLimitMessage})}

DirectCalls ==
    {Call("calculate_usability_score", n, k, o, <<>>) :
        n \in ModelNames, k \in SdkOutcomes,
        o \in BackendOutcomes(ScoreReplies, ErrorMessages)}
    \cup
    {Call("format_feedback_summary", n, k, o, <<>>) :
        n \in ModelNames, k \in SdkOutcomes,
        o \in BackendOutcomes(SummaryReplies, ErrorMessages)}
    \cup
    {Call("generate_context_keywords", n, k, o, t) :
        n \in ModelNames, k \in SdkOutcomes,
        o \in BackendOutcomes({KeywordsText}, ErrorMessages), t \in FeatureTexts}
    \cup
    {Call("get_usability_rating", <<>>, "ok", BackendAnswer(<<>>), x) : x \in Floats}
    \cup
    {Call("result_entry", <<>>, "ok", BackendAnswer(<<>>), Fin(v)) : v \in 100..500}
    \cup
    {Call("create_model_client", n, k, BackendAnswer(<<>>), <<>>) :
        n \in RoutingNames, k \in SdkOutcomes}
    \cup
    {Call("send_request", n, "ok", BackendAnswer(<<>>), o) :
        n \in ModelNames \ {UnknownName}, o \in BackendScripts}
    \cup
    {Call("get_principles_for_flow", <<>>, "ok", BackendAnswer(<<>>), f) : f \in FlowType}

InitFn ==
    /\ feature_text = <<>>
    /\ flow_type = None
    /\ persona_names = NoList
    /\ model_name = <<>>
    /\ store = <<>>
    /\ uuid_count = 0
    /\ pc = "idle"
    /\ IdleLocals
    /\ raised_at = "none"
    /\ outcome = Pending
    /\ IdleSessions
    /\ call \in DirectCalls
    /\ ret = Pending
    /\ IdleFrame

Returns(fn, r) ==
    /\ call.fn = fn
    /\ ret.exc = "pending"
    /\ ret' = r
    /\ UNCHANGED <<args, sessions, store, uuid_count, pc, locals, raised_at, outcome, call, frame>>

CallScore ==
    Returns("calculate_usability_score",
            calculate_usability_score(call.model_name, call.sdk, call.out))

CallSummary ==
    Returns("format_feedback_summary",
            format_feedback_summary(call.model_name, call.sdk, call.out))

CallKeywords ==
    Returns("generate_context_keywords",
            generate_context_keywords(call.arg, call.model_name, call.sdk, call.out))

CallRating ==
    Returns("get_usability_rating", Ok(get_usability_rating(call.arg)))

CallResultEntry ==
    Returns("result_entry",
            Ok(result_entry("internet_first_entrepreneur", call.arg,
                            create_default_summary, FeedbackText)))

CallCreateClient ==
    Returns("create_model_client", create_model_client(call.model_name, call.sdk))

CallSendRequest ==
    Returns("send_request",
            Ok(send_request_call(create_model_client(call.model_name, call.sdk).val,
                                 call.arg)))

CallPrinciples ==
    Returns("get_principles_for_flow", Ok(get_principles_for_flow(call.arg)))

NextFn ==
    \/ CallScore
    \/ CallSummary
    \/ CallKeywords
    \/ CallRating
    \/ CallResultEntry
    \/ CallCreateClient
    \/ CallSendRequest
    \/ CallPrinciples

SpecFn == InitFn /\ [][NextFn]_vars

\* ---------------------------------------------------------------- retry wrapper
\* retry_with_exponential_backoff.  Delays and sleeps are in hundredths of a
\* second; the jitter factor and the draw of random.uniform(-1, 1) are in
\* hundredths too.
Sec(n) == 100 * n

Min(a, b) == IF a <= b THEN a ELSE b
Max(a, b) == IF a >= b THEN a ELSE b

\* "429" in error_str
has_429(s) ==
    \E i \in 1..(Len(s) - 2) : SubSeq(s, i, i + 2) = <<Dg("4"), Dg("2"), Dg("9")>>

\* str.lower, on the words of the error texts.
LowerWord(w) ==
    CASE w = "Retry" -> "retry"
      [] w = "After" -> "after"
      [] w = "Seconds" -> "seconds"
      [] w = "Too" -> "too"
      [] w = "Many" -> "many"
      [] w = "Requests" -> "requests"
      [] w = "Error" -> "error"
      [] w = "Connection" -> "connection"
      [] w = "Service" -> "service"
      [] w = "Rate" -> "rate"
      [] OTHER -> w

lower(s) == [i \in 1..Len(s) |-> IF s[i][1] = "w" THEN Wd(LowerWord(s[i][2])) ELSE s[i]]

\* Whether retry after (\d+) seconds matches at position i, its digits
\* ending at j - 1.
MatchesAt(s, i, j) ==
    /\ i + 4 < j /\ j + 1 <= Len(s)
    /\ SubSeq(s, i, i + 3) = <<Wd("retry"), Ws(" "), Wd("after"), Ws(" ")>>
    /\ j = SkipDigits(s, i + 4)
    /\ SubSeq(s, j, j + 1) = <<Ws(" "), Wd("seconds")>>

\* re.search(r'retry after (\d+) seconds', s): group(1) of the leftmost
\* match, <<>> without a match.
time_match(s) ==
    LET hits == {i \in 1..Len(s) : \E j \in 1..Len(s) : MatchesAt(s, i, j)} IN
    IF hits = {} THEN <<>>
    ELSE LET i == CHOOSE h \in hits : \A g \in hits : h <= g
         IN  SubSeq(s, i + 4, SkipDigits(s, i + 4) - 1)

\* wait_time = 60
DefaultWaitTime == 60

\* The wait time of lines 42-46, in seconds.
wait_time_of(s) ==
    LET m == time_match(lower(s)) IN
    IF m = <<>> THEN DefaultWaitTime ELSE IntVal(m)

\* The give-up test with the retry count left out: every error is retried
\* until the retries are used up.
gives_up_when_exhausted(n, max_retries, s) == n >= max_retries

\* The give-up test one retry late.
gives_up_late(n, max_retries, s) == n > max_retries \/ ~has_429(s)

\* retries >= max_retries or "429" not in error_str
gives_up(n, max_retries, s) == n >= max_retries \/ ~has_429(s)

\* delay * jitter * random.uniform(-1, 1), u the draw.
jitter_amount_of(d, jitter, u) == (d * jitter * u) \div 10000

\* The sleep with no cap.
sleep_time_uncapped(wait_time, d, jitter_amount, max_delay) ==
    Max(Sec(wait_time), d + jitter_amount)

\* min(max(wait_time, delay + jitter_amount), max_delay)
sleep_time_of(wait_time, d, jitter_amount, max_delay) ==
    Min(Max(Sec(wait_time), d + jitter_amount), Sec(max_delay))

\* min(delay * backoff_factor, max_delay)
next_delay(d, backoff_factor, max_delay) == Min(d * backoff_factor, Sec(max_delay))

\* The arguments of the decorator, as written in its signature.
DefaultParams ==
    [max_retries |-> 5, initial_delay |-> 2, max_delay |-> 70, backoff_factor |-> 2,
     jitter |-> 10]

\* The decorators a wrapper is built with.
Params ==
    {DefaultParams} \cup
    {[max_retries |-> m, initial_delay |-> i, max_delay |-> d, backoff_factor |-> 2,
      jitter |-> j] :
        m \in 0..MaxRetriesArg, i \in {1, 2}, d \in {5, 70, 120}, j \in {0, 10}}

\* The texts of the errors the wrapped function raises.
RetryAfter30 ==
    <<Dg("4"), Dg("2"), Dg("9"), Ws(" "), Wd("Too"), Ws(" "), Wd("Many"), Ws(" "),
      Wd("Requests"), Ch("."), Ws(" "), Wd("Retry"), Ws(" "), Wd("after"), Ws(" "),
      Dg("3"), Dg("0"), Ws(" "), Wd("seconds")>>
RetryAfter1 ==
    <<Wd("Rate"), Ws(" "), Wd("limit"), Ws(" "), Ch("("), Dg("4"), Dg("2"), Dg("9"),
      Ch(")"), Ch(":"), Ws(" "), Wd("retry"), Ws(" "), Wd("after"), Ws(" "), Dg("1"),
      Ws(" "), Wd("seconds")>>
RetryAfter90 ==
    <<Wd("HTTP"), Ws(" "), Dg("4"), Dg("2"), Dg("9"), Ch(","), Ws(" "), Wd("retry"),
      Ws(" "), Wd("after"), Ws(" "), Dg("9"), Dg("0"), Ws(" "), Wd("seconds"), Ch(".")>>
BusyMessage ==
    <<Wd("Service"), Ws(" "), Wd("busy"), Ch(","), Ws(" "), Wd("retry"), Ws(" "),
      Wd("after"), Ws(" "), Dg("5"), Ws(" "), Wd("seconds")>>
FuncErrors ==
    {RateLimitMessage, RetryAfter30, RetryAfter1, RetryAfter90, ConnectionMessage,
     BusyMessage}

\* The draws of random.uniform(-1, 1).
UniformDraws == {-100, -50, 0, 50, 100}

\* The exception e of the except clause, raised again by a bare raise.
Reraise(s) == [exc |-> "Exception", msg |-> s]

WrapperCalls == {[fn |-> "wrapper", params |-> q] : q \in Params}

\* wrapper entered: retries = 0, delay = initial_delay.
InitRetry ==
    /\ feature_text = <<>>
    /\ flow_type = None
    /\ persona_names = NoList
    /\ model_name = <<>>
    /\ store = <<>>
    /\ uuid_count = 0
    /\ pc = "idle"
    /\ IdleLocals
    /\ raised_at = "none"
    /\ outcome = Pending
    /\ IdleSessions
    /\ call \in WrapperCalls
    /\ ret = Pending
    /\ retries = 0
    /\ delay = Sec(call.params.initial_delay)
    /\ calls = 0
    /\ rate_limited = 0
    /\ sleeps = 0
    /\ error_str = <<>>
    /\ sleep_time = 0

InWrapper == call.fn = "wrapper" /\ ret.exc = "pending"

\* What a call of the wrapped function that raises e adds to the counters.
FuncRaised(e) ==
    /\ calls' = calls + 1
    /\ rate_limited' = rate_limited + (IF has_429(e) THEN 1 ELSE 0)
    /\ error_str' = e

\* One turn of the loop in which func returns: the wrapper returns its value.
WrapperReturns ==
    /\ InWrapper
    /\ calls' = calls + 1
    /\ ret' = Ok(FeedbackText)
    /\ UNCHANGED <<retries, delay, rate_limited, sleeps, error_str, sleep_time>>
    /\ UNCHANGED <<args, sessions, store, uuid_count, pc, locals, raised_at, outcome, call>>

\* One turn of the loop in which func raises and the wrapper gives up: the
\* error is raised again.
WrapperRaises ==
    /\ InWrapper
    /\ \E e \in FuncErrors :
         /\ gives_up(retries, call.params.max_retries, e)
         /\ FuncRaised(e)
         /\ ret' = Reraise(e)
    /\ UNCHANGED <<retries, delay, sleeps, sleep_time>>
    /\ UNCHANGED <<args, sessions, store, uuid_count, pc, locals, raised_at, outcome, call>>

\* One turn of the loop in which func raises and the wrapper sleeps and
\* goes round again.
WrapperRetries ==
    /\ InWrapper
    /\ \E e \in FuncErrors, u \in UniformDraws :
         /\ ~gives_up(retries, call.params.max_retries, e)
         /\ FuncRaised(e)
         /\ LET wait_time == wait_time_of(e)
                jitter_amount == jitter_amount_of(delay, call.params.jitter, u)
            IN  sleep_time' = sleep_time_of(wait_time, delay, jitter_amount,
                                            call.params.max_delay)
         /\ sleeps' = sleeps + 1
         /\ retries' = retries + 1
         /\ delay' = next_delay(delay, call.params.backoff_factor, call.params.max_delay)
    /\ UNCHANGED <<args, sessions, store, uuid_count, pc, locals, raised_at, outcome, call, ret>>

NextRetry ==
    \/ WrapperReturns
    \/ WrapperRaises
    \/ WrapperRetries

SpecRetry == InitRetry /\ [][NextRetry]_vars

\* ---------------------------------------------------------------- two sessions
\* The seconds the clock can show.
MaxClock == 2

Sessions == {1, 2}

\* f"processed_documents/test_results_{timestamp}.json", the timestamp being
\* datetime.now() to the second.
filename_at(timestamp) == <<"processed_documents/test_results_", timestamp, ".json">>

\* save_test_results: open(filename, "w") and json.dump; a file of that
\* name is replaced.
save_test_results(fs, timestamp, report) ==
    LET filename == filename_at(timestamp) IN
    [files |-> [f \in DOMAIN fs \cup {filename} |->
                    IF f = filename THEN report ELSE fs[f]],
     filename |-> filename]

\* A session about to call run_feature_test.
NewRun(text, flow, lst) ==
    [feature_text |-> text, flow_type |-> flow, persona_names |-> lst,
     pc |-> "start", context |-> <<>>, idx |-> 1, feedback |-> <<>>,
     score |-> Fin(0), summary |-> JObj(EmptyDict), results |-> <<>>,
     ids |-> <<>>, raised_at |-> "none", outcome |-> Pending,
     saved |-> FALSE, filename |-> filename_at(0)]

\* What the two sessions ask for: different texts, lists that share
\* personas in different orders, an unknown id, no list.
SessionRuns ==
    { <<NewRun(<<Wd("Saved"), Ws(" "), Wd("cards")>>, None, l1),
        NewRun(<<Wd("Cart"), Ch(":"), Ws(" "), Wd("save")>>, "checkout", l2)>> :
        l1 \in {SomeList(<<"internet_first_entrepreneur", "hybrid_emerging_business">>),
                NoList},
        l2 \in {SomeList(<<"hybrid_emerging_business", "internet_first_entrepreneur">>),
                SomeList(<<"does_not_exist", "internet_first_entrepreneur">>)} }

InitRuns ==
    /\ feature_text = <<>>
    /\ flow_type = None
    /\ persona_names = NoList
    /\ model_name = AzureName
    /\ store \in InitialStores
    /\ uuid_count = 0
    /\ pc = "idle"
    /\ IdleLocals
    /\ raised_at = "none"
    /\ outcome = Pending
    /\ call = NoCall
    /\ ret = Pending
    /\ IdleFrame
    /\ runs \in SessionRuns
    /\ clock = 0
    /\ files = <<>>

names_of(r) == names_or_default(runs[r].persona_names)

\* The frame of session r becomes rec; the single run stays idle.
Becomes(r, rec) ==
    /\ runs' = [runs EXCEPT ![r] = rec]
    /\ UNCHANGED <<args, pc, locals, raised_at, outcome, call, ret, frame>>

\* except Exception in the run of a session.
Excepts(rec, where) ==
    [rec EXCEPT !.raised_at = where, !.pc = "done",
                !.outcome = run_feature_test_except("Exception", rec.feature_text,
                                                    rec.flow_type)]

\* The client is built and the context keywords are generated.
RunStart(r) ==
    /\ runs[r].pc = "start"
    /\ \E sdk \in SdkOutcomes :
         LET c == create_model_client(model_name, sdk) IN
         Becomes(r, IF Raised(c) THEN Excepts(runs[r], "create_model_client")
                    ELSE [runs[r] EXCEPT !.pc = "retrieve"])
    /\ UNCHANGED <<store, uuid_count, clock, files>>

\* chroma_manager.query on the collection as it is now.
RunRetrieve(r) ==
    /\ runs[r].pc = "retrieve"
    /\ \/ Becomes(r, Excepts(runs[r], "query"))
       \/ \E res \in query_results(store, DefaultNResults) :
            Becomes(r, [runs[r] EXCEPT
                          !.context = join(<<Ws("\n"), Ws("\n")>>,
                                           retrieved_docs_texts_of(res)),
                          !.pc = "loop"])
    /\ UNCHANGED <<store, uuid_count, clock, files>>

\* A name that is not in the registry: continue.
RunSkip(r) ==
    /\ runs[r].pc = "loop"
    /\ runs[r].idx <= Len(names_of(r))
    /\ names_of(r)[runs[r].idx] \notin DOMAIN personas
    /\ Becomes(r, [runs[r] EXCEPT !.idx = @ + 1])
    /\ UNCHANGED <<store, uuid_count, clock, files>>

\* The three model calls for one persona: feedback, score, summary.
RunRespond(r) ==
    /\ runs[r].pc = "loop"
    /\ runs[r].idx <= Len(names_of(r))
    /\ names_of(r)[runs[r].idx] \in DOMAIN personas
    /\ \E out \in BackendOutcomes({FeedbackText}, RunErrorMessages) :
         Becomes(r, [runs[r] EXCEPT
            !.feedback = send_request("AzureOpenAI", out),
            !.score = calculate_usability_score(model_name, "ok",
                         BackendAnswer(<<Dg("4"), Ch("."), Dg("5")>>)).val,
            !.summary = format_feedback_summary(model_name, "ok",
                         BackendAnswer(WellFormedText)).val,
            !.pc = "store"])
    /\ UNCHANGED <<store, uuid_count, clock, files>>

\* results.append, uuid.uuid4(), chroma_manager.add_documents.
RunStore(r) ==
    /\ runs[r].pc = "store"
    /\ uuid_count' = uuid_count + 1
    /\ LET rec == runs[r]
           name == names_of(r)[rec.idx]
           appended == [rec EXCEPT
                          !.results = Append(@, result_entry(name, rec.score,
                                                             rec.summary, rec.feedback)),
                          !.ids = Append(@, uuid_count + 1)]
           doc == [feedback_doc(uuid_count + 1, name, rec.feedback, rec.score)
                     EXCEPT !.metadata.feature = rec.feature_text]
       IN  \E collection_add \in StoreOutcomes :
             LET w == add_documents(store, doc, collection_add) IN
             IF Raised(w)
             THEN /\ Becomes(r, Excepts(appended, "add_documents"))
                  /\ UNCHANGED store
             ELSE /\ Becomes(r, [appended EXCEPT !.idx = @ + 1, !.pc = "loop"])
                  /\ store' = w.val
    /\ UNCHANGED <<clock, files>>

\* The loop is over: the report is returned to the session.
RunReturn(r) ==
    /\ runs[r].pc = "loop"
    /\ runs[r].idx > Len(names_of(r))
    /\ Becomes(r, [runs[r] EXCEPT
                     !.outcome = Ok(Report(runs[r].feature_text, runs[r].flow_type,
                                           runs[r].results)),
                     !.pc = "done"])
    /\ UNCHANGED <<store, uuid_count, clock, files>>

\* The session saves the report it got: save_test_results(results).
RunSave(r) ==
    /\ runs[r].pc = "done"
    /\ LET w == save_test_results(files, clock, runs[r].outcome.val) IN
         /\ files' = w.files
         /\ Becomes(r, [runs[r] EXCEPT !.saved = TRUE, !.filename = w.filename,
                                       !.pc = "saved"])
    /\ UNCHANGED <<store, uuid_count, clock>>

\* A second passes.
Tick ==
    /\ clock < MaxClock
    /\ clock' = clock + 1
    /\ UNCHANGED <<args, runs, files, store, uuid_count, pc, locals, raised_at, outcome,
                   call, ret, frame>>

NextRuns ==
    \/ \E r \in Sessions : RunStart(r)
    \/ \E r \in Sessions : RunRetrieve(r)
    \/ \E r \in Sessions : RunSkip(r)
    \/ \E r \in Sessions : RunRespond(r)
    \/ \E r \in Sessions : RunStore(r)
    \/ \E r \in Sessions : RunReturn(r)
    \/ \E r \in Sessions : RunSave(r)
    \/ Tick

SpecRuns == InitRuns /\ [][NextRuns]_vars

\* ---------------------------------------------------------------- properties
Returned(fn) == call.fn = fn /\ ret.exc # "pending"

KnownModelNames == {AzureName, BedrockName, AwsName, GeminiName}

IsKnown(p) == p \in DOMAIN personas
FilterKnown(l) == SelectSeq(l, IsKnown)
PersonaSeq(rs) == [i \in 1..Len(rs) |-> rs[i].persona]

InLoop == pc \in {"loop", "score", "summary", "store"}
InPersona == pc \in {"score", "summary", "store"}

Clamp(v) == IF v < 100 THEN 100 ELSE IF v > 500 THEN 500 ELSE v

\* C1: every score calculate_usability_score returns lies in [1.0, 5.0]; a
\* reply that parses as a number is clamped into the range, and a reply that
\* does not parse, a backend error string or a client that cannot be built
\* gives exactly 3.0; the call never raises.
C1_ScoreClampedOrNeutral ==
    Returned("calculate_usability_score") =>
        /\ ret.exc = "none"
        /\ ret.val.k = "fin"
        /\ ret.val.v >= 100 /\ ret.val.v <= 500
        /\ LET p == ParseFloat(call.out.text) IN
           IF call.model_name \in KnownModelNames /\ call.sdk = "ok"
              /\ ~call.out.fails /\ p.ok
           THEN /\ p.val.k = "fin" => ret.val.v = Clamp(p.val.v)
                /\ p.val.k = "inf" => ret.val.v = 500
                /\ p.val.k = "ninf" => ret.val.v = 100
           ELSE ret.val.v = 300

\* A reply of 7 has been clamped to 5.0.
C1_Witness ==
    /\ Returned("calculate_usability_score")
    /\ call.model_name = AzureName /\ call.sdk = "ok"
    /\ ~call.out.fails /\ call.out.text = <<Dg("7")>>
    /\ ret.exc = "none"
    /\ ret.val = Fin(500)

\* C2: for every reply to the structuring prompt, format_feedback_summary
\* returns a mapping whose key set is exactly the five fixed categories.
C2_SummaryHasFixedCategories ==
    Returned("format_feedback_summary") =>
        /\ ret.exc = "none"
        /\ ret.val.t = "obj"
        /\ DOMAIN ret.val.v = {FixedCategories[i] : i \in 1..Len(FixedCategories)}

\* C3: if the store write for a persona fails, every later known persona of
\* the list still has its result in the returned test_results.
C3_LaterPersonasProcessed ==
    (pc = "done" /\ raised_at = "add_documents") =>
        /\ outcome.exc = "none"
        /\ \A j \in (idx + 1)..Len(names) :
             IsKnown(names[j]) =>
                \E i \in 1..Len(outcome.val.test_results) :
                    outcome.val.test_results[i].persona = names[j]

\* C4: if the store write for a persona fails, the result assembled for that
\* persona is still in the returned test_results.
C4_ResultKeptOnWriteFailure ==
    (pc = "done" /\ raised_at = "add_documents") =>
        /\ outcome.exc = "none"
        /\ \E i \in 1..Len(outcome.val.test_results) :
             outcome.val.test_results[i].persona = names[idx]

\* C5 as stated: for every supplied persona_names list, when nothing raises,
\* the personas of test_results are the list with the unknown ids removed.
C5_ResultsFollowSuppliedList ==
    (pc = "done" /\ raised_at = "none" /\ persona_names.kind = "list") =>
        /\ outcome.exc = "none"
        /\ PersonaSeq(outcome.val.test_results) = FilterKnown(persona_names.v)

\* C5, amended: for every supplied non-empty persona_names list, when
\* nothing raises, the run returns and the personas of test_results are the
\* list with the unknown ids removed, in the same order; all through the
\* loop the results are those of the known ids met so far, each from the
\* prompt of its own persona, so an unknown id adds and removes nothing.
C5_ResultsFollowNonEmptyList ==
    (raised_at = "none" /\ persona_names.kind = "list" /\ persona_names.v # <<>>) =>
        /\ InLoop =>
             PersonaSeq(results) = FilterKnown(SubSeq(persona_names.v, 1, idx - 1))
        /\ InPersona =>
             /\ IsKnown(persona_names.v[idx])
             /\ query.persona_name = personas[persona_names.v[idx]].name
        /\ pc = "done" =>
             /\ outcome.exc = "none"
             /\ PersonaSeq(outcome.val.test_results) = FilterKnown(persona_names.v)

\* An unknown id before a known one: only the known one has a result.
C5_Witness ==
    /\ pc = "done" /\ raised_at = "none"
    /\ persona_names = SomeList(<<"does_not_exist", "hybrid_emerging_business">>)
    /\ outcome.exc = "none"
    /\ PersonaSeq(outcome.val.test_results) = <<"hybrid_emerging_business">>

\* C6: run_feature_test never lets an exception out: whichever call raised,
\* it returns a report with no results, whose feature_name is the text
\* before the first colon (the whole text without one) and whose flow_type
\* is the value of the flow type ("general" without one).
C6_ExceptionsBecomeEmptyReport ==
    /\ pc # "done" => outcome.exc = "pending"
    /\ pc = "done" =>
        /\ outcome.exc = "none"
        /\ raised_at # "none" => outcome.val.test_results = <<>>
        /\ outcome.val.flow_type = (IF flow_type = None THEN "general" ELSE flow_type)
        /\ LET n == outcome.val.feature_name IN
           IF \E i \in 1..Len(feature_text) : feature_text[i] = Ch(":")
           THEN /\ Len(n) < Len(feature_text)
                /\ n = SubSeq(feature_text, 1, Len(n))
                /\ feature_text[Len(n) + 1] = Ch(":")
                /\ \A i \in 1..Len(n) : n[i] # Ch(":")
           ELSE n = feature_text

\* The store write of the second persona raised, after a first result.
C6_Witness ==
    /\ pc = "done" /\ raised_at = "add_documents"
    /\ Len(results) = 2
    /\ outcome.exc = "none"
    /\ outcome.val.test_results = <<>>

\* C7: on any failure of the summarizing step (the client cannot be built,
\* or the backend fails), generate_context_keywords returns the raw text.
C7_FailureFallsBackToText ==
    Returned("generate_context_keywords") =>
        /\ ret.exc = "none"
        /\ (call.model_name \notin KnownModelNames \/ call.sdk = "raise"
              \/ call.out.fails) => ret.val = call.arg

\* C8: no outcome of the store query reaches the outermost handler: a
\* populated result gives its documents as context, an empty result and an
\* exception of the store give the empty context.
C8_QueryOutcomesHandled ==
    /\ raised_at # "query"
    /\ (InLoop \/ pc = "principles") =>
          context = join(<<Ws("\n"), Ws("\n")>>,
                         IF chroma_results.kind = "dict"
                            /\ chroma_results.documents.kind = "list"
                            /\ chroma_results.documents.v # <<>>
                         THEN chroma_results.documents.v[1] ELSE <<>>)

EmptyResult(r) ==
    \/ r.kind = "none"
    \/ r.documents.kind = "none"
    \/ r.documents.v = <<>>
    \/ r.documents.v[1] = <<>>

Retrieved ==
    \/ InLoop
    \/ pc = "principles"
    \/ pc = "done" /\ raised_at \notin {"create_model_client",
                                       "generate_context_keywords", "query"}

\* C9: when the store query returns an empty result (no result, no
\* documents field, an empty list, an empty nested list), run_feature_test
\* does not raise, the context is empty, and the returned report holds one
\* result for each known persona.
C9_EmptyResultStillGivesFeedback ==
    (Retrieved /\ EmptyResult(chroma_results)) =>
        /\ context = <<>>
        /\ InPersona => query.context = <<>>
        /\ pc = "done" =>
             /\ outcome.exc = "none"
             /\ Len(outcome.val.test_results) = Len(FilterKnown(names))

RatingTable(v) ==
    CASE v >= 450 -> "Excellent"
      [] v < 450 /\ v >= 400 -> "Very Good"
      [] v < 400 /\ v >= 350 -> "Good"
      [] v < 350 /\ v >= 300 -> "Fair"
      [] v < 300 /\ v >= 250 -> "Poor"
      [] v < 250 -> "Very Poor"

RatingRank(r) ==
    CASE r = "Very Poor" -> 0 [] r = "Poor" -> 1 [] r = "Fair" -> 2
      [] r = "Good" -> 3 [] r = "Very Good" -> 4 [] r = "Excellent" -> 5

\* C10: get_usability_rating is the step function of the table (>= 4.5
\* Excellent, >= 4.0 Very Good, >= 3.5 Good, >= 3.0 Fair, >= 2.5 Poor, else
\* Very Poor), it never decreases as the score grows, and the rating of
\* every result is the rating of that result's score.
C10_RatingIsStepFunction ==
    /\ Returned("get_usability_rating") =>
         /\ call.arg.k = "fin" =>
              /\ ret.val = RatingTable(call.arg.v)
              /\ call.arg.v > 0 =>
                   RatingRank(get_usability_rating(Fin(call.arg.v - 1)))
                      <= RatingRank(ret.val)
         /\ call.arg.k = "inf" => ret.val = "Excellent"
         /\ call.arg.k = "ninf" => ret.val = "Very Poor"
    /\ Returned("result_entry") =>
         /\ ret.val.usability_score.score = call.arg
         /\ call.arg.k = "fin" =>
              ret.val.usability_score.rating = RatingTable(call.arg.v)

\* The score 4.5 has been rated Excellent.
C10_Witness ==
    /\ Returned("get_usability_rating")
    /\ call.arg = Fin(450)
    /\ ret.val = "Excellent"

\* C11 as stated: the rating of 4.5 is Excellent, of 4.49 Good and of 1.0
\* Very Poor.
C11_RatingExamplesAsStated ==
    Returned("get_usability_rating") =>
        /\ call.arg = Fin(450) => ret.val = "Excellent"
        /\ call.arg = Fin(449) => ret.val = "Good"
        /\ call.arg = Fin(100) => ret.val = "Very Poor"

\* C11, amended: the rating of 4.5 is Excellent, of 4.49 Very Good (the
\* band from 4.0 up to 4.5) and of 1.0 Very Poor.
C11_RatingExamples ==
    Returned("get_usability_rating") =>
        /\ call.arg = Fin(450) => ret.val = "Excellent"
        /\ call.arg = Fin(449) => ret.val = "Very Good"
        /\ call.arg = Fin(100) => ret.val = "Very Poor"

\* The score 4.49 has been rated Very Good.
C11_Witness ==
    /\ Returned("get_usability_rating")
    /\ call.arg = Fin(449)
    /\ ret.val = "Very Good"

\* The errors whose text carries the rate-limit marker.
HasMarker(e) == e \in {RateLimitMessage, RetryAfter30, RetryAfter1, RetryAfter90}

\* The wait in seconds an error text suggests, 0 when it suggests none.
SuggestedWait(e) ==
    CASE e = RetryAfter30 -> 30
      [] e = RetryAfter1 -> 1
      [] e = RetryAfter90 -> 90
      [] e = BusyMessage -> 5
      [] OTHER -> 0

\* C12: the wrapper retries only on an error whose text carries 429: every
\* sleep follows a rate-limit error, and an error without the marker, on
\* the first call or after earlier retries, is raised to the caller at once,
\* with no sleep for it and no call after it.
C12_OnlyRateLimitRetried ==
    call.fn = "wrapper" =>
        /\ sleeps <= rate_limited
        /\ (calls > 0 /\ error_str # <<>> /\ ~HasMarker(error_str)) =>
             /\ ret.exc = "Exception"
             /\ ret.msg = error_str
             /\ calls = rate_limited + 1
             /\ sleeps = rate_limited

\* An error without the marker was raised to the caller after two retries.
C12_Witness ==
    /\ call.fn = "wrapper"
    /\ sleeps = 2 /\ calls = 3
    /\ error_str = BusyMessage
    /\ ret.exc = "Exception"
    /\ ret.msg = BusyMessage

\* C13: if every call of the wrapped function raises a rate-limit error,
\* the wrapper calls it max_retries + 1 times, sleeps max_retries times and
\* raises the error of the last call; it never calls more often and returns
\* no value.
C13_ExhaustionReraises ==
    call.fn = "wrapper" =>
        LET m == call.params.max_retries IN
        /\ calls <= m + 1
        /\ rate_limited <= m + 1
        /\ rate_limited = m + 1 =>
             /\ ret.exc = "Exception"
             /\ ret.msg = error_str
             /\ HasMarker(error_str)
             /\ calls = m + 1
             /\ sleeps = m

\* The defaults, six rate-limit errors: the last one has been raised.
C13_Witness ==
    /\ call.fn = "wrapper"
    /\ call.params = DefaultParams
    /\ rate_limited = 6 /\ calls = 6 /\ sleeps = 5
    /\ ret.exc = "Exception"
    /\ ret.msg = RetryAfter30

\* C14: when the wrapped function raises a rate-limit error k times
\* (k <= max_retries) and then returns, the wrapper has made k + 1 calls and
\* k sleeps and returns the value; it gives up on a rate-limit error only
\* after max_retries retries; no sleep is longer than max_delay.
C14_RetriesThenSuccess ==
    call.fn = "wrapper" =>
        /\ ret.exc = "none" =>
             /\ ret.val = FeedbackText
             /\ rate_limited <= call.params.max_retries
             /\ calls = rate_limited + 1
             /\ sleeps = rate_limited
             /\ retries = rate_limited
        /\ (ret.exc = "Exception" /\ HasMarker(error_str)) =>
             rate_limited = call.params.max_retries + 1
        /\ sleeps > 0 => sleep_time <= Sec(call.params.max_delay)

\* The defaults, three rate-limit errors, then the value.
C14_Witness ==
    /\ call.fn = "wrapper"
    /\ call.params = DefaultParams
    /\ ret.exc = "none"
    /\ ret.val = FeedbackText
    /\ rate_limited = 3 /\ sleeps = 3 /\ calls = 4

\* The delay of the n-th retry: initial_delay, then multiplied by
\* backoff_factor each time and capped at max_delay.
RECURSIVE Schedule(_, _)
Schedule(q, n) ==
    IF n <= 1 THEN Sec(q.initial_delay)
    ELSE Min(Schedule(q, n - 1) * q.backoff_factor, Sec(q.max_delay))

\* C15: when the rate-limit error suggests no wait, the n-th sleep is the
\* delay of the n-th retry plus a jitter of at most jitter times that delay.
C15_SleepFollowsBackoffSchedule ==
    (InWrapper /\ sleeps > 0 /\ SuggestedWait(error_str) = 0) =>
        LET d == Schedule(call.params, sleeps)
            j == (d * call.params.jitter) \div 100
        IN  /\ sleep_time >= d - j
            /\ sleep_time <= d + j

\* C16: when the rate-limit error suggests a wait of w seconds, the wrapper
\* sleeps min(w, max_delay).
C16_SuggestedWaitTakesPrecedence ==
    (InWrapper /\ sleeps > 0 /\ SuggestedWait(error_str) > 0) =>
        sleep_time = Min(Sec(SuggestedWait(error_str)), Sec(call.params.max_delay))

\* The backend a model name stands for by the text it starts with, None
\* for every other name.
ExpectedBackend(n) ==
    IF n = <<>> THEN None
    ELSE CASE Head(n) = Wd("Azure-gpt-") -> "AzureOpenAI"
           [] Head(n) = Wd("Bedrock-claude") -> "AWSBedrock"
           [] Head(n) = Wd("AWS-claude") -> "AWSBedrock"
           [] Head(n) = Wd("gemini-") -> "Gemini"
           [] OTHER -> None

\* C17: create_model_client chooses the backend by the prefix of the name
\* alone, and a name with none of the prefixes raises ValueError from
\* create_model_client itself, so that no client exists to send with.
C17_RoutesOnPrefix ==
    Returned("create_model_client") =>
        /\ ExpectedBackend(call.model_name) = None => ret.exc = "ValueError"
        /\ ExpectedBackend(call.model_name) # None =>
             /\ ret.exc # "ValueError"
             /\ call.sdk = "ok" => ret.exc = "none"
             /\ ret.exc = "none" => ret.val = ExpectedBackend(call.model_name)

\* A name with the prefix in lower case has raised ValueError.
C17_Witness ==
    /\ Returned("create_model_client")
    /\ call.model_name = <<Wd("azure-gpt-"), Wd("4o")>>
    /\ call.sdk = "ok"
    /\ ret.exc = "ValueError"

\* C18: for every backend, one invocation of send_request makes one
\* backend request, never raises, and on a failure of the request returns
\* the backend's error tag followed by the failure message.
C18_SendRequestReturnsTaggedError ==
    Returned("send_request") =>
        /\ ret.exc = "none"
        /\ ret.val.requests = 1
        /\ LET first == call.arg[1]
               tag == ExpectedBackend(call.model_name)
           IN  /\ first.fails =>
                    ret.val.text =
                        <<Wd(tag), Ws(" "), Wd("Error"), Ch(":"), Ws(" ")>> \o first.text
               /\ ~first.fails => ~IsErrorString(ret.val.text)

\* The Bedrock backend failed and its tagged string came back.
C18_Witness ==
    /\ Returned("send_request")
    /\ call.model_name = BedrockName
    /\ call.arg[1] = BackendFailure(ConnectionMessage)
    /\ ret.exc = "none"
    /\ ret.val.text =
         <<Wd("AWSBedrock"), Ws(" "), Wd("Error"), Ch(":"), Ws(" ")>> \o ConnectionMessage

\* C19: a backend that answers a first request with a rate-limit failure
\* and the next one with a completion gives the caller the completion: the
\* request is made again.
C19_RateLimitedCallRetried ==
    (/\ Returned("send_request")
     /\ call.arg[1] = BackendFailure(RateLimitMessage)
     /\ ~call.arg[2].fails) =>
        /\ ret.exc = "none"
        /\ ret.val.requests = 2
        /\ ret.val.text = strip(call.arg[2].text)

\* The position before the k-th of the eight lists in the result for f.
RECURSIVE Offset(_, _)
Offset(flows, k) ==
    IF k = 1 THEN 0 ELSE Offset(flows, k - 1) + PrincipleCount(flows[k - 1])

\* C20: for every flow type f, get_principles_for_flow(f) is the lists of
\* f, GENERAL, ETHICAL, VISUAL, PRICING, CONTENT, GAMIFICATION and CART one
\* after the other, nothing dropped: its length is the sum of the eight
\* lengths.
C20_PrinciplesConcatenated ==
    Returned("get_principles_for_flow") =>
        LET flows == <<call.arg, "general", "ethical", "visual", "pricing", "content",
                       "gamification", "cart">>
        IN  /\ ret.exc = "none"
            /\ Len(ret.val) = Offset(flows, 8) + PrincipleCount("cart")
            /\ \A k \in 1..8 : \A i \in 1..PrincipleCount(flows[k]) :
                 ret.val[Offset(flows, k) + i] = <<flows[k], i>>

\* For GENERAL the GENERAL list is there twice.
C20_Witness ==
    /\ Returned("get_principles_for_flow")
    /\ call.arg = "general"
    /\ Len(ret.val) = 21 + 21 + 15 + 15 + 15 + 15 + 15 + 16
    /\ ret.val[1] = ret.val[22]

\* ---------------------------------------------------------------- the report
\* n is text up to its first colon, or all of text when it has none.
BeforeFirstColon(n, text) ==
    LET colons == {i \in 1..Len(text) : text[i] = Ch(":")} IN
    IF colons = {} THEN n = text
    ELSE \E c \in colons :
           /\ \A d \in colons : c <= d
           /\ n = SubSeq(text, 1, c - 1)

\* C21: whenever run_feature_test has returned, with results or after an
\* exception, the report's feature_name is feature_text up to its first
\* colon (all of it without a colon) and its flow_type is the value of the
\* flow type given, "general" when none was given.
C21_ReportNamesFeatureAndFlow ==
    pc = "done" =>
        /\ outcome.exc = "none"
        /\ BeforeFirstColon(outcome.val.feature_name, feature_text)
        /\ flow_type = None => outcome.val.flow_type = "general"
        /\ flow_type # None => outcome.val.flow_type = flow_type

\* A run with results on a text with two colons and a flow type.
C21_Witness ==
    /\ pc = "done" /\ raised_at = "none"
    /\ Cardinality({i \in 1..Len(feature_text) : feature_text[i] = Ch(":")}) = 2
    /\ flow_type = "checkout"
    /\ outcome.exc = "none"
    /\ outcome.val.feature_name = <<Wd("Cart")>>
    /\ outcome.val.flow_type = "checkout"
    /\ Len(outcome.val.test_results) = 2

\* ---------------------------------------------------------------- the documents written
\* The documents this run has written: those under the ids uuid4 handed out.
Written == SelectSeq(store, LAMBDA d : d.id \in 1..uuid_count)

\* The i-th document written is the feedback document of the i-th result.
IsDocumentOf(d, r) ==
    /\ d.document = r.raw_feedback
    /\ d.metadata.persona = r.persona
    /\ d.metadata.feature = feature_text
    /\ d.metadata.score = r.usability_score.score
    /\ d.metadata.type = "feedback"
    /\ d.metadata.original_id = d.id

DistinctIds == \A i, j \in DOMAIN store : store[i].id = store[j].id => i = j

IsDefaultSummary(v) ==
    /\ v.t = "obj"
    /\ Cardinality(DOMAIN v.v) = 5
    /\ \A k \in DOMAIN v.v :
         /\ v.v[k].t = "obj"
         /\ DOMAIN v.v[k].v = {"summary", "quote"}
         /\ v.v[k].v["summary"] = JStr("Error processing feedback")
         /\ v.v[k].v["quote"] = JStr("N/A")

\* Replies that are no JSON and whose text from the first opening brace to
\* the last closing brace, if there is one, is no JSON either: an object cut
\* short, a bare word between braces, prose, nothing.
RepliesBeyondRepair ==
    { SubSeq(WellFormedText, 1, Len(WellFormedText) - 1),
      <<Ch("{"), Ws(" "), Wd("oops"), Ws(" "), Ch("}")>>,
      <<Wd("I"), Ws(" "), Wd("cannot"), Ws(" "), Wd("comply"), Ch(".")>>,
      <<>> }

\* C23: format_feedback_summary never raises, and when the client cannot be
\* built, the backend fails, or the reply is beyond repair, it returns the
\* default structure: five entries, each with summary "Error processing
\* feedback" and quote "N/A".
C23_UnparseableGivesDefault ==
    Returned("format_feedback_summary") =>
        /\ ret.exc = "none"
        /\ ( \/ ~startswith(call.model_name, "Azure-gpt-")
                 /\ ~startswith(call.model_name, "Bedrock-claude")
                 /\ ~startswith(call.model_name, "AWS-claude")
                 /\ ~startswith(call.model_name, "gemini-")
             \/ call.sdk = "raise"
             \/ call.out.fails
             \/ call.out.text \in RepliesBeyondRepair )
           => IsDefaultSummary(ret.val)

\* A bare word between braces: both parses fail.
C23_Witness ==
    /\ Returned("format_feedback_summary")
    /\ call.model_name = AzureName /\ call.sdk = "ok"
    /\ ~call.out.fails
    /\ call.out.text = <<Ch("{"), Ws(" "), Wd("oops"), Ws(" "), Ch("}")>>
    /\ ret.exc = "none"
    /\ IsDefaultSummary(ret.val)

\* ---------------------------------------------------------------- the order of the steps
\* One step of a run keeps the order of the loop body.
InOrder ==
    /\ pc' = "score" => pc = "loop" /\ idx' = idx /\ names[idx] \in DOMAIN personas
    /\ pc' = "summary" => pc = "score" /\ idx' = idx
    /\ pc' = "store" => pc = "summary" /\ idx' = idx
    /\ pc = "score" => pc' \in {"summary", "done"}
    /\ pc = "summary" => pc' \in {"store", "done"}
    /\ pc = "store" => pc' \in {"loop", "done"}
    /\ store' # store \/ results' # results \/ uuid_count' # uuid_count => pc = "store"
    /\ pc = "store" /\ pc' = "loop" =>
         /\ idx' = idx + 1
         /\ Len(results') = Len(results) + 1
         /\ Len(store') = Len(store) + 1
         /\ store'[Len(store')].document = results'[Len(results')].raw_feedback
    /\ idx' # idx /\ pc # "store" => pc = "loop" /\ names[idx] \notin DOMAIN personas
    /\ pc' = "loop" => Len(SelectSeq(store', LAMBDA d : d.id \in 1..uuid_count')) = Len(results')

\* C24: the personas are processed one after the other: for each, the
\* feedback call, then the scoring call, then the structuring call, then
\* the store write, each once, and the loop reaches the next persona only
\* with every result so far written to the store.
C24_PersonasInSequence == [][InOrder]_vars

\* The second persona is about to start; the first is in the store.
C24_Witness ==
    /\ pc = "loop" /\ idx = 2
    /\ Len(names) = 2 /\ names[2] \in DOMAIN personas
    /\ Len(results) = 1 /\ Len(Written) = 1
    /\ Written[1].document = results[1].raw_feedback
    /\ Written[1].metadata.persona = names[1]

\* ---------------------------------------------------------------- two sessions, one collection
\* How many results of session r have their document in the collection.
StoredCount(r) ==
    Len(runs[r].ids) - (IF runs[r].raised_at = "add_documents" THEN 1 ELSE 0)

Returned2(r) == runs[r].pc \in {"done", "saved"}

\* A step leaves the collection as it is or appends one document.
AppendOnly ==
    \/ store' = store
    \/ /\ Len(store') = Len(store) + 1
       /\ SubSeq(store', 1, Len(store)) = store

\* l is the start of m.
IsPrefix(l, m) == Len(l) <= Len(m) /\ l = SubSeq(m, 1, Len(l))

SharedStoreSafe ==
    /\ DistinctIds
    /\ \A i \in DOMAIN runs[1].ids, j \in DOMAIN runs[2].ids :
         runs[1].ids[i] # runs[2].ids[j]
    /\ \A r \in Sessions :
         /\ IsPrefix(PersonaSeq(runs[r].results), FilterKnown(names_of(r)))
         /\ Returned2(r) /\ runs[r].raised_at = "none" =>
              PersonaSeq(runs[r].outcome.val.test_results) = FilterKnown(names_of(r))
         /\ \A i \in 1..StoredCount(r) : \E k \in DOMAIN store :
              /\ store[k].id = runs[r].ids[i]
              /\ store[k].document = runs[r].results[i].raw_feedback
              /\ store[k].metadata.persona = runs[r].results[i].persona
              /\ store[k].metadata.feature = runs[r].feature_text

\* C25: whichever way the steps of two sessions on one collection
\* interleave, the collection only grows by appended documents, no id is
\* used by both sessions, each session's results are those of its own
\* known personas in the order of its own list, and every document a
\* session has written stays in the collection.
C25_SessionsShareStoreSafely == []SharedStoreSafe /\ [][AppendOnly]_vars

\* Both sessions returned two results, their writes alternating.
C25_Witness ==
    /\ \A r \in Sessions : Returned2(r) /\ runs[r].raised_at = "none"
    /\ runs[1].ids = <<1, 3>> /\ runs[2].ids = <<2, 4>>
    /\ Len(store) = 5 /\ store[1] = PriorDoc
    /\ PersonaSeq(runs[1].outcome.val.test_results)
         = <<"internet_first_entrepreneur", "hybrid_emerging_business">>
    /\ PersonaSeq(runs[2].outcome.val.test_results)
         = <<"hybrid_emerging_business", "internet_first_entrepreneur">>
    /\ store[2].metadata.feature # store[3].metadata.feature

\* ---------------------------------------------------------------- the saved reports
\* C26: every session that has saved its report finds it in the file it
\* wrote, and two sessions that have saved wrote two different files.
C26_ReportsSavedApart ==
    /\ \A r \in Sessions : runs[r].saved =>
         /\ runs[r].filename \in DOMAIN files
         /\ files[runs[r].filename] = runs[r].outcome.val
    /\ runs[1].saved /\ runs[2].saved => runs[1].filename # runs[2].filename

WrittenTexts == {Written[i].document : i \in 1..Len(Written)}
ReportedTexts ==
    {outcome.val.test_results[i].raw_feedback : i \in 1..Len(outcome.val.test_results)}

\* When an exception got out of the turn of the k-th persona, the report
\* has no results and the documents of the k - 1 personas before it are in
\* the store.
FailedTurnKeepsDocuments ==
    pc = "done" /\ raised_at = "add_documents" =>
        /\ outcome.exc = "none"
        /\ outcome.val.test_results = <<>>
        /\ Len(Written) = Len(results) - 1
        /\ \A i \in 1..Len(Written) :
             /\ Written[i].document = results[i].raw_feedback
             /\ Written[i].metadata.persona = results[i].persona
             /\ \E k \in DOMAIN store : store[k] = Written[i]

Found == SelectSeq(store, LAMBDA d : d.id \notin 1..uuid_count)

\* text occurs in s.
Occurs(text, s) ==
    \E i \in 1..(Len(s) - Len(text) + 1) : SubSeq(s, i, i + Len(text) - 1) = text

\* The query step is behind the run and did not raise.
Queried ==
    \/ pc \in {"principles", "loop", "score", "summary", "store"}
    \/ pc = "done" /\ raised_at \in {"none", "add_documents"}

ContextFromOneQuery ==
    /\ pc \in {"create_client", "keywords", "retrieve"} =>
         Len(Written) = 0 /\ context = <<>> /\ chroma_results = NoResult
    /\ Queried =>
         /\ chroma_results \in query_results(Found, DefaultNResults)
         /\ context = join(<<Ws("\n"), Ws("\n")>>, retrieved_docs_texts_of(chroma_results))
    /\ InPersona => query.context = context
    /\ \A i \in 1..Len(Written) : ~Occurs(Written[i].document, context)

\* Only the query step sets the query result and the context.
ContextSetByQueryOnly ==
    context' # context \/ chroma_results' # chroma_results =>
        pc = "retrieve" /\ pc' = "principles" /\ store' = store

\* C29: a run queries the store once, before its loop and before it writes
\* anything; the prompt of every persona carries the context of that one
\* query, which holds nothing the run itself wrote for an earlier persona.
C29_ContextQueriedOnce == []ContextFromOneQuery /\ [][ContextSetByQueryOnly]_vars

\* The prompt of the second persona carries the context found at the
\* start, while the feedback of the first is in the store.
C29_Witness ==
    /\ pc = "score" /\ idx = 2
    /\ Len(Written) = 1 /\ store[1] = PriorDoc
    /\ context = PriorDoc.document
    /\ query.context = PriorDoc.document
    /\ query.persona_name = personas[names[2]].name

\* ---------------------------------------------------------------- the default persona
\* C30: a run given no persona list, or an empty one, processes the
\* persona internet_first_entrepreneur and no other: that is the only name
\* the loop sees, and a run that ends without an exception reports exactly
\* one result, for that persona.
C30_DefaultPersonaWhenNoneGiven ==
    persona_names.kind = "none" \/ persona_names.v = <<>> =>
        /\ InLoop => /\ names = <<"internet_first_entrepreneur">>
                     /\ PersonaSeq(results) \in {<<>>, <<"internet_first_entrepreneur">>}
        /\ pc = "done" /\ raised_at = "none" =>
             /\ Len(outcome.val.test_results) = 1
             /\ outcome.val.test_results[1].persona = "internet_first_entrepreneur"

\* A run given the empty list has returned one result.
C30_Witness ==
    /\ persona_names = SomeList(<<>>)
    /\ pc = "done" /\ raised_at = "none"
    /\ Len(outcome.val.test_results) = 1
    /\ outcome.val.test_results[1].persona = "internet_first_entrepreneur"
    /\ Len(Written) = 1

====
